---- MODULE Spec2Model ----
(***************************************************************************)
(* flow-control: the declarative macros break_if!, continue_if! and        *)
(* return_if! (src/src/lib.rs).                                            *)
(*                                                                         *)
(* Part 1 models macro expansion: every macro is a list of rules, a rule   *)
(* is a matcher (a pattern over the invocation's token trees) and a        *)
(* transcriber (the template of the output).  Rules are tried in order; a  *)
(* rule that does not fit is skipped, a fragment that starts like an       *)
(* expression but does not parse aborts the expansion.                     *)
(*                                                                         *)
(* Part 2 models the six documented example programs: the statement the    *)
(* expansion produced is run inside the example's loops.                   *)
(***************************************************************************)
EXTENDS Integers, Sequences, FiniteSets, TLC

\* ------------------------------------------------------------------------
\* Token trees of an invocation.  A string stands for one token tree.
\* ------------------------------------------------------------------------
MaxLen == 5                       \* longest invocation, in token trees

Comma    == ","
Lifetime == "'outer"              \* a loop label token
BinOps   == {"+"}                 \* a binary operator
Atoms    == {"p", "early return", "f(a, b)"}
            \* an identifier, a string literal, and a call whose delimited
            \* argument group is one token tree although it holds a comma
Tokens   == Atoms \cup BinOps \cup {Comma, Lifetime}

RECURSIVE SeqsUpTo(_, _)
SeqsUpTo(S, n) ==
    IF n = 0 THEN {<<>>}
    ELSE LET shorter == SeqsUpTo(S, n - 1)
         IN  shorter \cup {Append(s, t) : s \in {x \in shorter : Len(x) = n - 1}, t \in S}

Invocations == SeqsUpTo(Tokens, MaxLen)

\* ------------------------------------------------------------------------
\* The rules, as written in the source.
\* ------------------------------------------------------------------------
Frag(name, spec) == [m |-> "frag", name |-> name, spec |-> spec]   \* $name:spec
Tok(t)           == [m |-> "tok",  name |-> t,    spec |-> ""]     \* a literal token
Opt(t)           == [m |-> "opt",  name |-> t,    spec |-> ""]     \* $(t)?
Lit(t)           == [m |-> "lit",  name |-> t]                     \* template token
Var(name)        == [m |-> "var",  name |-> name]                  \* template $name

Rule(matcher, transcriber) == [matcher |-> matcher, transcriber |-> transcriber]

\* Mutant of IfTemplate: the predicate is spliced twice into the condition.
IfTemplate_predicate_twice(keyword, arg) ==
    <<Lit("if"), Var("predicate"), Var("predicate"), Lit("{"), Lit(keyword)>>
        \o arg \o <<Lit(";"), Lit("}")>>

IfTemplate(keyword, arg) ==
    <<Lit("if"), Var("predicate"), Lit("{"), Lit(keyword)>> \o arg \o <<Lit(";"), Lit("}")>>

\* Mutants of break_if: the first rule continues; the second rule drops the
\* label; the label is matched as an expression.
break_if_continues ==
    << Rule(<<Frag("predicate", "expr"), Opt(Comma)>>,
            IfTemplate("continue", <<>>)),
       Rule(<<Frag("predicate", "expr"), Tok(Comma), Frag("label", "tt"), Opt(Comma)>>,
            IfTemplate("break", <<Var("label")>>)) >>

break_if_label_dropped ==
    << Rule(<<Frag("predicate", "expr"), Opt(Comma)>>,
            IfTemplate("break", <<>>)),
       Rule(<<Frag("predicate", "expr"), Tok(Comma), Frag("label", "tt"), Opt(Comma)>>,
            IfTemplate("break", <<>>)) >>

break_if_label_expr ==
    << Rule(<<Frag("predicate", "expr"), Opt(Comma)>>,
            IfTemplate("break", <<>>)),
       Rule(<<Frag("predicate", "expr"), Tok(Comma), Frag("label", "expr"), Opt(Comma)>>,
            IfTemplate("break", <<Var("label")>>)) >>

break_if ==
    << Rule(<<Frag("predicate", "expr"), Opt(Comma)>>,
            IfTemplate("break", <<>>)),
       Rule(<<Frag("predicate", "expr"), Tok(Comma), Frag("label", "tt"), Opt(Comma)>>,
            IfTemplate("break", <<Var("label")>>)) >>

\* Mutants of continue_if: the first rule breaks; the second rule drops the
\* label; the second rule takes no trailing comma.
continue_if_breaks ==
    << Rule(<<Frag("predicate", "expr"), Opt(Comma)>>,
            IfTemplate("break", <<>>)),
       Rule(<<Frag("predicate", "expr"), Tok(Comma), Frag("label", "tt"), Opt(Comma)>>,
            IfTemplate("continue", <<Var("label")>>)) >>

continue_if_label_dropped ==
    << Rule(<<Frag("predicate", "expr"), Opt(Comma)>>,
            IfTemplate("continue", <<>>)),
       Rule(<<Frag("predicate", "expr"), Tok(Comma), Frag("label", "tt"), Opt(Comma)>>,
            IfTemplate("continue", <<>>)) >>

continue_if_no_trailing_comma ==
    << Rule(<<Frag("predicate", "expr"), Opt(Comma)>>,
            IfTemplate("continue", <<>>)),
       Rule(<<Frag("predicate", "expr"), Tok(Comma), Frag("label", "tt")>>,
            IfTemplate("continue", <<Var("label")>>)) >>

continue_if ==
    << Rule(<<Frag("predicate", "expr"), Opt(Comma)>>,
            IfTemplate("continue", <<>>)),
       Rule(<<Frag("predicate", "expr"), Tok(Comma), Frag("label", "tt"), Opt(Comma)>>,
            IfTemplate("continue", <<Var("label")>>)) >>

\* Mutants of return_if: the first rule continues; the second rule drops the
\* value; the value is matched as a single token tree.
return_if_continues ==
    << Rule(<<Frag("predicate", "expr"), Opt(Comma)>>,
            IfTemplate("continue", <<>>)),
       Rule(<<Frag("predicate", "expr"), Tok(Comma), Frag("ret", "expr"), Opt(Comma)>>,
            IfTemplate("return", <<Var("ret")>>)) >>

return_if_value_dropped ==
    << Rule(<<Frag("predicate", "expr"), Opt(Comma)>>,
            IfTemplate("return", <<>>)),
       Rule(<<Frag("predicate", "expr"), Tok(Comma), Frag("ret", "expr"), Opt(Comma)>>,
            IfTemplate("return", <<>>)) >>

return_if_ret_tt ==
    << Rule(<<Frag("predicate", "expr"), Opt(Comma)>>,
            IfTemplate("return", <<>>)),
       Rule(<<Frag("predicate", "expr"), Tok(Comma), Frag("ret", "tt"), Opt(Comma)>>,
            IfTemplate("return", <<Var("ret")>>)) >>

return_if ==
    << Rule(<<Frag("predicate", "expr"), Opt(Comma)>>,
            IfTemplate("return", <<>>)),
       Rule(<<Frag("predicate", "expr"), Tok(Comma), Frag("ret", "expr"), Opt(Comma)>>,
            IfTemplate("return", <<Var("ret")>>)) >>

Macros == {"break_if", "continue_if", "return_if"}

RulesOf(name) ==
    CASE name = "break_if"    -> break_if
      [] name = "continue_if" -> continue_if
      [] name = "return_if"   -> return_if

\* ------------------------------------------------------------------------
\* Matching one rule.
\* ------------------------------------------------------------------------
\* May this token start an expression?  A lifetime may (a labeled block or
\* loop starts with one), an operator such as + or a comma may not.
CanBeginExpr(t) == t \in Atoms \cup {Lifetime}

\* Parse the longest expression that starts at toks[j]: operand (+ operand)*.
\* The result is the index after the expression, or 0 for a syntax error.
RECURSIVE ParseExpr(_, _)
ParseExpr(toks, j) ==
    IF j > Len(toks) \/ toks[j] \notin Atoms THEN 0
    ELSE IF j + 1 <= Len(toks) /\ toks[j + 1] \in BinOps
         THEN ParseExpr(toks, j + 2)
         ELSE j + 1

Failure == [status |-> "Failure", binds |-> <<>>]   \* this rule does not fit
Error   == [status |-> "Error",   binds |-> <<>>]   \* a fragment failed to parse

Bind(e, toks) == [name |-> e.name, spec |-> e.spec, toks |-> toks]

\* Match pat[i..] against toks[j..].  The optional separator is taken when
\* the next token is that separator: nothing but the end of the invocation
\* may follow it in these rules, so skipping it could not match either.
RECURSIVE MatchFrom(_, _, _, _, _)
MatchFrom(pat, i, toks, j, binds) ==
    IF i > Len(pat)
    THEN IF j > Len(toks) THEN [status |-> "Matched", binds |-> binds] ELSE Failure
    ELSE LET e == pat[i] IN
         CASE e.m = "frag" /\ e.spec = "expr" ->
                  IF j > Len(toks) \/ ~CanBeginExpr(toks[j]) THEN Failure
                  ELSE LET end == ParseExpr(toks, j) IN
                       IF end = 0 THEN Error
                       ELSE MatchFrom(pat, i + 1, toks, end,
                                      Append(binds, Bind(e, SubSeq(toks, j, end - 1))))
           [] e.m = "frag" /\ e.spec = "tt" ->
                  IF j > Len(toks) THEN Failure
                  ELSE MatchFrom(pat, i + 1, toks, j + 1,
                                 Append(binds, Bind(e, <<toks[j]>>)))
           [] e.m = "tok" ->
                  IF j <= Len(toks) /\ toks[j] = e.name
                  THEN MatchFrom(pat, i + 1, toks, j + 1, binds)
                  ELSE Failure
           [] e.m = "opt" ->
                  IF j <= Len(toks) /\ toks[j] = e.name
                  THEN MatchFrom(pat, i + 1, toks, j + 1, binds)
                  ELSE MatchFrom(pat, i + 1, toks, j, binds)

MatchRule(rule, toks) == MatchFrom(rule.matcher, 1, toks, 1, <<>>)

\* ------------------------------------------------------------------------
\* Transcribing the template of the rule that matched.  A fragment is
\* spliced as one opaque item that remembers what kind of fragment it is.
\* ------------------------------------------------------------------------
Lookup(binds, name) == binds[CHOOSE k \in 1..Len(binds) : binds[k].name = name]

Transcribe(template, binds) ==
    [k \in 1..Len(template) |->
        IF template[k].m = "lit"
        THEN [kind |-> "lit", toks |-> <<template[k].name>>]
        ELSE LET b == Lookup(binds, template[k].name)
             IN  [kind |-> b.spec, toks |-> b.toks]]

\* ------------------------------------------------------------------------
\* Expanding an invocation: the first rule that matches is transcribed.
\* ------------------------------------------------------------------------
Pending    == [status |-> "Pending",    rule |-> 0, out |-> <<>>]
NoMatch    == [status |-> "NoMatch",    rule |-> 0, out |-> <<>>]
ParseError == [status |-> "ParseError", rule |-> 0, out |-> <<>>]

RECURSIVE TryRules(_, _, _)
TryRules(rules, k, toks) ==
    IF k > Len(rules) THEN NoMatch
    ELSE LET m == MatchRule(rules[k], toks) IN
         CASE m.status = "Matched" ->
                  [status |-> "Expanded", rule |-> k,
                   out |-> Transcribe(rules[k].transcriber, m.binds)]
           [] m.status = "Error"   -> ParseError
           [] m.status = "Failure" -> TryRules(rules, k + 1, toks)

Expand(rules, toks) == TryRules(rules, 1, toks)

\* ------------------------------------------------------------------------
\* The documented example programs.
\* ------------------------------------------------------------------------
OuterEnd == 3          \* for outer_n in 1..3
InnerEnd == 5          \* for inner_n in 1..5
FnEnd    == 10         \* for n in 1..10

LoopExamples == {"break_predicate_only", "break_predicate_and_label",
                 "continue_predicate_only", "continue_predicate_and_label"}
FnExamples   == {"return_default", "return_value"}
Examples     == LoopExamples \cup FnExamples

MacroOf(example) ==
    CASE example \in {"break_predicate_only", "break_predicate_and_label"}       -> "break_if"
      [] example \in {"continue_predicate_only", "continue_predicate_and_label"} -> "continue_if"
      [] example \in FnExamples                                                  -> "return_if"

\* The token trees between the parentheses of the example's invocation; the
\* identifier p stands for the example's predicate expression.
InvocationOf(example) ==
    CASE example \in {"break_predicate_only", "continue_predicate_only", "return_default"}
             -> <<"p">>
      [] example \in {"break_predicate_and_label", "continue_predicate_and_label"}
             -> <<"p", Comma, Lifetime>>
      [] example = "return_value"
             -> <<"p", Comma, "early return">>

\* The values of the loop variables a predicate may be true of.
LoopPoints == {<<o, i>> : o \in 1..(OuterEnd - 1), i \in 1..(InnerEnd - 1)}
FnPoints   == {<<k>> : k \in 1..(FnEnd - 1)}

\* The predicate of the examples' text, inner_n == 3 and n == 5.
DocLoopPred == {pt \in LoopPoints : pt[2] = 3}
DocFnPred   == {pt \in FnPoints : pt[1] = 5}

\* ------------------------------------------------------------------------
\* Reading the expanded statement  if <cond> { <keyword> <arg> ; }
\* ------------------------------------------------------------------------
LitItem(t) == [kind |-> "lit", toks |-> <<t>>]

Pos(out, t) == CHOOSE k \in 1..Len(out) : out[k] = LitItem(t)

CondItems(out) == SubSeq(out, Pos(out, "if") + 1, Pos(out, "{") - 1)
BodyItems(out) == SubSeq(out, Pos(out, "{") + 1, Pos(out, "}") - 1)

\* The control transfer of the body: its keyword and the label or value.
Keyword(out)   == BodyItems(out)[1].toks[1]
Argument(out)  == LET b == BodyItems(out) IN
                  IF b[2] = LitItem(";") THEN <<>> ELSE b[2].toks

\* The condition is true when every expression item of it is true at the
\* current values of the loop variables.
CondHolds(out, predicate, point) ==
    \A k \in 1..Len(CondItems(out)) : point \in predicate

\* Where a transfer taken in the body of the inner loop leads.
LoopTarget(keyword, label) ==
    CASE keyword = "break"    /\ label = <<>>         -> "outer_for"  \* leave the inner loop
      [] keyword = "break"    /\ label = <<Lifetime>> -> "done"       \* leave 'outer
      [] keyword = "continue" /\ label = <<>>         -> "inner_for"  \* next inner_n
      [] keyword = "continue" /\ label = <<Lifetime>> -> "outer_for"  \* next outer_n

\* Where a transfer taken in the body of the closure's loop leads.
FnTarget(keyword) ==
    CASE keyword = "return"   -> "done"        \* leave the closure
      [] keyword = "break"    -> "after_loop"  \* leave the loop
      [] keyword = "continue" -> "fn_for"      \* next n

\* The value a return statement hands back.
ReturnValue(arg) == IF arg = <<>> THEN "()" ELSE arg[1]

VARIABLES
    macro,      \* the macro invoked
    input,      \* the token trees of the invocation
    result,     \* the outcome of the expansion
    example,    \* the example program run, "none" for a bare expansion
    predicate,  \* the points at which the predicate is true
    pc,         \* the program point
    outer_n, inner_n, n,   \* loop variables
    v,          \* the Vec the examples push to
    returned,   \* what the closure returned, "" while it has not
    evals,      \* evaluations of the predicate so far
    execs       \* executions of the macro's statement so far

vars == <<macro, input, result, example, predicate, pc, outer_n, inner_n, n, v,
          returned, evals, execs>>

runvars == <<outer_n, inner_n, n, v, returned, evals, execs>>

InitRun ==
    /\ pc = "expand"
    /\ outer_n = 0 /\ inner_n = 0 /\ n = 0
    /\ v = <<>>
    /\ returned = ""
    /\ evals = 0 /\ execs = 0

\* Any invocation of any of the macros, expanded on its own.
InitExpansion ==
    /\ macro \in Macros
    /\ input \in Invocations
    /\ result = Pending
    /\ example = "none"
    /\ predicate = {}
    /\ InitRun

\* One of the example programs, with any predicate over its loop variables.
InitExample ==
    /\ example \in Examples
    /\ macro = MacroOf(example)
    /\ input = InvocationOf(example)
    /\ result = Pending
    /\ predicate \in (IF example \in LoopExamples THEN SUBSET LoopPoints ELSE SUBSET FnPoints)
    /\ InitRun

Init == InitExpansion \/ InitExample

\* After the expansion: a bare expansion is over, an example starts to run.
AfterExpand(res) ==
    IF res.status # "Expanded" THEN "failed"
    ELSE IF example = "none" THEN "expanded"
    ELSE IF example \in LoopExamples THEN "outer_for"
    ELSE "fn_for"

ExpandWith(rules) ==
    /\ result' = Expand(rules, input)
    /\ pc' = AfterExpand(result')
    /\ UNCHANGED <<macro, input, example, predicate>>
    /\ UNCHANGED runvars

ExpandBreakIf ==
    /\ pc = "expand"
    /\ macro = "break_if"
    /\ ExpandWith(break_if)

ExpandContinueIf ==
    /\ pc = "expand"
    /\ macro = "continue_if"
    /\ ExpandWith(continue_if)

ExpandReturnIf ==
    /\ pc = "expand"
    /\ macro = "return_if"
    /\ ExpandWith(return_if)

fixed == <<macro, input, result, example, predicate>>

\* for outer_n in 1..OuterEnd
OuterFor ==
    /\ pc = "outer_for"
    /\ IF outer_n + 1 < OuterEnd
       THEN /\ outer_n' = outer_n + 1
            /\ inner_n' = 0
            /\ pc' = "inner_for"
       ELSE /\ pc' = "done"
            /\ UNCHANGED <<outer_n, inner_n>>
    /\ UNCHANGED <<fixed, n, v, returned, evals, execs>>

\* for inner_n in 1..InnerEnd
InnerFor ==
    /\ pc = "inner_for"
    /\ IF inner_n + 1 < InnerEnd
       THEN /\ inner_n' = inner_n + 1
            /\ pc' = "loop_macro"
       ELSE /\ pc' = "outer_for"
            /\ UNCHANGED inner_n
    /\ UNCHANGED <<fixed, outer_n, n, v, returned, evals, execs>>

\* break_if!(..) or continue_if!(..), the first statement of the inner body
LoopMacro ==
    /\ pc = "loop_macro"
    /\ evals' = evals + Len(CondItems(result.out))
    /\ execs' = execs + 1
    /\ pc' = IF CondHolds(result.out, predicate, <<outer_n, inner_n>>)
             THEN LoopTarget(Keyword(result.out), Argument(result.out))
             ELSE "push"
    /\ UNCHANGED <<fixed, outer_n, inner_n, n, v, returned>>

\* v.push((outer_n, inner_n))
Push ==
    /\ pc = "push"
    /\ v' = Append(v, <<outer_n, inner_n>>)
    /\ pc' = "inner_for"
    /\ UNCHANGED <<fixed, outer_n, inner_n, n, returned, evals, execs>>

\* for n in 1..FnEnd, inside the closure
FnFor ==
    /\ pc = "fn_for"
    /\ IF n + 1 < FnEnd
       THEN /\ n' = n + 1
            /\ pc' = "fn_macro"
       ELSE /\ pc' = "after_loop"
            /\ UNCHANGED n
    /\ UNCHANGED <<fixed, outer_n, inner_n, v, returned, evals, execs>>

\* return_if!(..), the first statement of the closure's loop body
FnMacro ==
    /\ pc = "fn_macro"
    /\ evals' = evals + Len(CondItems(result.out))
    /\ execs' = execs + 1
    /\ IF CondHolds(result.out, predicate, <<n>>)
       THEN /\ pc' = FnTarget(Keyword(result.out))
            /\ returned' = IF Keyword(result.out) = "return"
                           THEN ReturnValue(Argument(result.out))
                           ELSE returned
       ELSE /\ pc' = IF example = "return_default" THEN "fn_push" ELSE "fn_for"
            /\ UNCHANGED returned
    /\ UNCHANGED <<fixed, outer_n, inner_n, n, v>>

\* v.push(n)
FnPush ==
    /\ pc = "fn_push"
    /\ v' = Append(v, n)
    /\ pc' = "fn_for"
    /\ UNCHANGED <<fixed, outer_n, inner_n, n, returned, evals, execs>>

\* The end of the closure: the explicit return, or falling off the end.
AfterLoop ==
    /\ pc = "after_loop"
    /\ returned' = IF example = "return_value" THEN "return after loop" ELSE "()"
    /\ pc' = "done"
    /\ UNCHANGED <<fixed, outer_n, inner_n, n, v, evals, execs>>

Next ==
    \/ ExpandBreakIf
    \/ ExpandContinueIf
    \/ ExpandReturnIf
    \/ OuterFor
    \/ InnerFor
    \/ LoopMacro
    \/ Push
    \/ FnFor
    \/ FnMacro
    \/ FnPush
    \/ AfterLoop

Spec == Init /\ [][Next]_vars

\* ========================================================================
\* Properties
\* ========================================================================

\* The comma-separated fragments of an invocation, one trailing comma
\* dropped.  A delimited group is one token tree, so a comma inside it does
\* not separate fragments.
RECURSIVE SplitAtCommas(_)
SplitAtCommas(toks) ==
    IF \A k \in 1..Len(toks) : toks[k] # Comma THEN <<toks>>
    ELSE LET c == CHOOSE k \in 1..Len(toks) :
                      toks[k] = Comma /\ \A h \in 1..(k - 1) : toks[h] # Comma
         IN  <<SubSeq(toks, 1, c - 1)>> \o SplitAtCommas(SubSeq(toks, c + 1, Len(toks)))

Fragments(toks) ==
    LET body == IF toks # <<>> /\ toks[Len(toks)] = Comma
                THEN SubSeq(toks, 1, Len(toks) - 1) ELSE toks
    IN  IF body = <<>> THEN <<>> ELSE SplitAtCommas(body)

\* A fragment that is an expression: operands separated by operators.
IsExpr(frag) ==
    /\ Len(frag) % 2 = 1
    /\ \A k \in 1..Len(frag) : IF k % 2 = 1 THEN frag[k] \in Atoms ELSE frag[k] \in BinOps

IsLabel(frag) == frag = <<Lifetime>>

LoopMacros == {"break_if", "continue_if"}

\* An invocation made of the fragments the documentation speaks of: a
\* predicate expression first, then a label (break_if, continue_if) or a
\* value expression (return_if); further fragments are of either kind.
WellFormedFragments(name, toks) ==
    LET f == Fragments(toks) IN
    \A k \in 1..Len(f) :
        CASE k = 1 -> IsExpr(f[k])
          [] k = 2 -> IF name \in LoopMacros THEN IsLabel(f[k]) ELSE IsExpr(f[k])
          [] OTHER -> IsExpr(f[k]) \/ IsLabel(f[k])

TransferOf(name) ==
    CASE name = "break_if"    -> "break"
      [] name = "continue_if" -> "continue"
      [] name = "return_if"   -> "return"

OneArgStatement(name, p) ==
    <<LitItem("if"), [kind |-> "expr", toks |-> p], LitItem("{"),
      LitItem(TransferOf(name)), LitItem(";"), LitItem("}")>>

TwoArgStatement(name, p, x) ==
    <<LitItem("if"), [kind |-> "expr", toks |-> p], LitItem("{"),
      LitItem(TransferOf(name)),
      [kind |-> IF name \in LoopMacros THEN "tt" ELSE "expr", toks |-> x],
      LitItem(";"), LitItem("}")>>

Expanded == pc # "expand"

\* C1: arity dispatch.  For each macro and every invocation made of
\* well-formed fragments: one fragment expands by the first rule to
\* `if predicate { <transfer>; }`, two fragments expand by the second rule to
\* `if predicate { <transfer> <second>; }`, in both cases the other rule does
\* not match, and no fragment or three and more fragments match no rule.
C1_ArityDispatch ==
    (Expanded /\ WellFormedFragments(macro, input)) =>
        LET f == Fragments(input)
            rules == RulesOf(macro)
        IN  /\ Len(f) = 1 =>
                  /\ result = [status |-> "Expanded", rule |-> 1,
                               out |-> OneArgStatement(macro, f[1])]
                  /\ MatchRule(rules[2], input).status # "Matched"
            /\ Len(f) = 2 =>
                  /\ result = [status |-> "Expanded", rule |-> 2,
                               out |-> TwoArgStatement(macro, f[1], f[2])]
                  /\ MatchRule(rules[1], input).status # "Matched"
            /\ Len(f) \notin {1, 2} => result = NoMatch

C1_Witness ==
    /\ pc = "expanded"
    /\ macro = "break_if"
    /\ input = <<"p", "+", "p", Comma, Lifetime>>
    /\ result.rule = 2

\* The two-fragment shape-mismatch reading of C2, as stated: for invocations
\* whose predicate is an expression and whose fragments are not empty, the
\* expansion fails exactly when the number of fragments is not 1 or 2, and a
\* failed expansion has no output.
C2_OnlyArityFails ==
    LET f == Fragments(input) IN
    (/\ Expanded
     /\ \A k \in 1..Len(f) : f[k] # <<>>
     /\ Len(f) >= 1 => IsExpr(f[1]))
    => /\ (result.status # "Expanded") <=> (Len(f) \notin {1, 2})
       /\ result.status # "Expanded" => result.out = <<>>

\* The shapes the rules accept, read off the invocation alone: an
\* expression, then nothing, or a comma and a second fragment, then at most
\* one more comma.  The second fragment is any single token tree for
\* break_if and continue_if and any expression for return_if.
AcceptedShape(name, toks) ==
    \E e \in 1..Len(toks) :
        /\ IsExpr(SubSeq(toks, 1, e))
        /\ LET rest == SubSeq(toks, e + 1, Len(toks))
               m    == Len(rest)
           IN  \/ rest \in {<<>>, <<Comma>>}
               \/ /\ name \in LoopMacros
                  /\ m \in {2, 3}
                  /\ rest[1] = Comma
                  /\ m = 3 => rest[3] = Comma
               \/ /\ name = "return_if"
                  /\ m >= 2
                  /\ rest[1] = Comma
                  /\ \/ IsExpr(SubSeq(rest, 2, m))
                     \/ rest[m] = Comma /\ IsExpr(SubSeq(rest, 2, m - 1))

\* C2 (amended): an expansion fails if and only if the invocation is not
\* one expression optionally followed by a comma and a second fragment that
\* is a single token tree (break_if, continue_if) or an expression
\* (return_if), with at most one trailing comma.  Within that shape the
\* second fragment is not validated.  A failed expansion has no output and
\* nothing runs.
C2_ShapeDecides ==
    Expanded =>
        /\ (result.status = "Expanded") <=> AcceptedShape(macro, input)
        /\ result.status # "Expanded" => (result.out = <<>> /\ pc = "failed")
        /\ result.status \in {"Expanded", "NoMatch", "ParseError"}

\* A label position filled by an operator: accepted, not validated.
C2_Witness ==
    /\ pc = "expanded"
    /\ macro = "continue_if"
    /\ input = <<"p", Comma, "+">>
    /\ result.status = "Expanded"

\* C3: trailing separator tolerance.  For each macro, an invocation that
\* ends in one comma after a non-comma token expands to exactly what the
\* invocation without that comma expands to: the same statement by the same
\* rule, or the same failure.  This covers (predicate,) against (predicate)
\* and (predicate, x,) against (predicate, x).
C3_TrailingComma ==
    (/\ Expanded
     /\ Len(input) >= 2
     /\ input[Len(input)] = Comma
     /\ input[Len(input) - 1] # Comma)
    => result = Expand(RulesOf(macro), SubSeq(input, 1, Len(input) - 1))

C3_Witness ==
    /\ pc = "expanded"
    /\ macro = "return_if"
    /\ input = <<"p", Comma, "early return", Comma>>
    /\ result.rule = 2

\* ------------------------------------------------------------------------
\* What the example programs collect.
\* ------------------------------------------------------------------------
Before(a, b) == a[1] < b[1] \/ (a[1] = b[1] /\ a[2] < b[2])

\* v holds exactly the pairs of S, each once, in iteration order.
CollectsPairs(S) ==
    /\ {v[k] : k \in 1..Len(v)} = S
    /\ \A a, b \in 1..Len(v) : a < b => Before(v[a], v[b])

\* v holds exactly the numbers of S, each once, in iteration order.
CollectsNumbers(S) ==
    /\ {v[k] : k \in 1..Len(v)} = S
    /\ \A a, b \in 1..Len(v) : a < b => v[a] < v[b]

\* The predicate is false at every inner value up to i of outer iteration o.
FalseUpTo(o, i) == \A j \in 1..i : <<o, j>> \notin predicate

\* The predicate is false at every point visited up to (o, i).
FalseSoFar(o, i) ==
    \A pt \in LoopPoints : (pt = <<o, i>> \/ Before(pt, <<o, i>>)) => pt \notin predicate

\* C4: unlabeled break_if leaves only the inner loop.  When the first
\* example ends, v holds, in order, exactly the pairs (outer, inner) such
\* that the predicate is false at every inner value up to inner of that outer
\* iteration, and the outer loop has run to its last iteration; with the
\* predicate inner_n == 3 that is [(1,1),(1,2),(2,1),(2,2)].
C4_BreakInner ==
    (example = "break_predicate_only" /\ pc = "done") =>
        /\ CollectsPairs({pt \in LoopPoints : FalseUpTo(pt[1], pt[2])})
        /\ outer_n = OuterEnd - 1
        /\ predicate = DocLoopPred => v = << <<1, 1>>, <<1, 2>>, <<2, 1>>, <<2, 2>> >>

C4_Witness ==
    /\ example = "break_predicate_only"
    /\ pc = "done"
    /\ predicate = DocLoopPred
    /\ Len(v) = 4

\* C5: labeled break_if leaves the loop the label names.  When the second
\* example ends, v holds, in order, exactly the pairs before the first point
\* at which the predicate is true, and once the predicate is true at the
\* macro both loops are over; with inner_n == 3 that is [(1,1),(1,2)].
C5_BreakOuter ==
    /\ (example = "break_predicate_and_label" /\ pc = "done") =>
          /\ CollectsPairs({pt \in LoopPoints : FalseSoFar(pt[1], pt[2])})
          /\ predicate = DocLoopPred => v = << <<1, 1>>, <<1, 2>> >>
    /\ (example = "break_predicate_and_label" /\ pc \notin {"expand", "done"}) =>
          \A pt \in LoopPoints :
              (Before(pt, <<outer_n, inner_n>>) \/ (pt = <<outer_n, inner_n>> /\ pc # "loop_macro"))
                  => pt \notin predicate

C5_Witness ==
    /\ example = "break_predicate_and_label"
    /\ pc = "done"
    /\ predicate = DocLoopPred
    /\ outer_n = 1 /\ inner_n = 3
    /\ Len(v) = 2

\* C6: unlabeled continue_if skips the rest of one inner iteration.  When
\* the third example ends, v holds, in order, exactly the pairs at which the
\* predicate is false; with inner_n == 3 that is
\* [(1,1),(1,2),(1,4),(2,1),(2,2),(2,4)].
C6_ContinueInner ==
    (example = "continue_predicate_only" /\ pc = "done") =>
        /\ CollectsPairs(LoopPoints \ predicate)
        /\ outer_n = OuterEnd - 1
        /\ predicate = DocLoopPred =>
               v = << <<1, 1>>, <<1, 2>>, <<1, 4>>, <<2, 1>>, <<2, 2>>, <<2, 4>> >>

C6_Witness ==
    /\ example = "continue_predicate_only"
    /\ pc = "done"
    /\ predicate = DocLoopPred
    /\ Len(v) = 6

\* C7: labeled continue_if goes on with the next iteration of the loop the
\* label names.  When the fourth example ends, v holds, in order, exactly the
\* pairs before the first true predicate of each outer iteration, and the
\* outer loop has run to its last iteration; with inner_n == 3 that is
\* [(1,1),(1,2),(2,1),(2,2)].
C7_ContinueOuter ==
    (example = "continue_predicate_and_label" /\ pc = "done") =>
        /\ CollectsPairs({pt \in LoopPoints : FalseUpTo(pt[1], pt[2])})
        /\ outer_n = OuterEnd - 1
        /\ predicate = DocLoopPred => v = << <<1, 1>>, <<1, 2>>, <<2, 1>>, <<2, 2>> >>

C7_Witness ==
    /\ example = "continue_predicate_and_label"
    /\ pc = "done"
    /\ predicate = DocLoopPred
    /\ outer_n = OuterEnd - 1
    /\ Len(v) = 4

\* C8: return_if with a predicate only leaves the closure with no value.
\* When the fifth example ends, v holds, in order, exactly the n before the
\* first n at which the predicate is true, and the closure returned (); with
\* n == 5 that is [1,2,3,4].
C8_ReturnDefault ==
    (example = "return_default" /\ pc = "done") =>
        /\ CollectsNumbers({k \in 1..(FnEnd - 1) : \A j \in 1..k : <<j>> \notin predicate})
        /\ returned = "()"
        /\ predicate # {} => \E k \in 1..(FnEnd - 1) :
                                 n = k /\ <<k>> \in predicate
                                       /\ \A j \in 1..(k - 1) : <<j>> \notin predicate
        /\ predicate = DocFnPred => v = <<1, 2, 3, 4>>

C8_Witness ==
    /\ example = "return_default"
    /\ pc = "done"
    /\ predicate = DocFnPred
    /\ n = 5
    /\ Len(v) = 4

\* C9: return_if with a predicate and a value returns that value.  The
\* sixth example returns "early return" when the predicate is true of some
\* n and "return after loop" only when it is true of none; the statement
\* after the loop is reached only in the latter case; with n == 5 the closure
\* returns "early return".
C9_ReturnValue ==
    /\ (example = "return_value" /\ pc = "done") =>
          /\ returned = IF predicate = {} THEN "return after loop" ELSE "early return"
          /\ predicate = DocFnPred => (returned = "early return" /\ n = 5)
    /\ (example = "return_value" /\ pc = "after_loop") => predicate = {}

C9_Witness ==
    /\ example = "return_value"
    /\ pc = "done"
    /\ predicate = DocFnPred
    /\ returned = "early return"

\* ------------------------------------------------------------------------
\* The shape of the expanded statement.
\* ------------------------------------------------------------------------
Count(out, item) == Cardinality({k \in 1..Len(out) : out[k] = item})

Literals(out) == {out[k].toks[1] : k \in {h \in 1..Len(out) : out[h].kind = "lit"}}

\* if <the predicate fragment, one item> { <one transfer> [<second>] ; }
\* and no other keyword, statement or declaration.
SingleGuardedTransfer(name, toks, out) ==
    LET last == Len(out) IN
    /\ last \in {6, 7}
    /\ out[1] = LitItem("if")
    /\ out[2] = [kind |-> "expr", toks |-> Fragments(toks)[1]]
    /\ out[3] = LitItem("{")
    /\ out[4] = LitItem(TransferOf(name))
    /\ last = 7 => out[5].kind # "lit"
    /\ out[last - 1] = LitItem(";")
    /\ out[last] = LitItem("}")
    /\ Count(out, LitItem("if")) = 1
    /\ Count(out, LitItem(";")) = 1
    /\ Literals(out) = {"if", "{", TransferOf(name), ";", "}"}
    /\ Cardinality({k \in 1..last : out[k].kind # "lit"}) = last - 5

AtMacro == pc \in {"loop_macro", "fn_macro"}

Point == IF pc = "loop_macro" THEN <<outer_n, inner_n>> ELSE <<n>>

NextStatement ==
    CASE pc = "loop_macro"                               -> "push"
      [] pc = "fn_macro" /\ example = "return_default"   -> "fn_push"
      [] pc = "fn_macro" /\ example = "return_value"     -> "fn_for"

\* C10: non-interference.  Every expanded statement is `if predicate {
\* transfer [second]; }` with the predicate fragment spliced once, unchanged,
\* as the whole condition and one transfer as the whole body; every
\* execution of the statement evaluates the predicate exactly once; and when
\* the predicate is false the next statement runs and nothing is returned.
C10_NonInterference ==
    /\ [](result.status = "Expanded" => SingleGuardedTransfer(macro, input, result.out))
    /\ [](evals = execs)
    /\ [][AtMacro => /\ evals' = evals + 1
                     /\ Point \notin predicate =>
                            (pc' = NextStatement /\ returned' = returned /\ v' = v)]_vars

C10_Witness ==
    /\ example = "return_default"
    /\ pc = "fn_push"
    /\ evals = 3
    /\ <<n>> \notin predicate
====
